---- MODULE Spec2Model ----
(***************************************************************************)
(* Heart-Disease-Prediction: the Streamlit script src/app.py as a state    *)
(* machine.  One script run is: load the model artifact, render the form,  *)
(* and, when the form was submitted, encode -> predict -> verdict ->       *)
(* gauge -> cholesterol bar -> report -> download, with a two second wait  *)
(* before the prediction and before the report.  Every user interaction    *)
(* starts a new script run from the top, with a cleared page; one made     *)
(* while a run is in progress stops that run where it is.                  *)
(*                                                                         *)
(* Units.  oldpeak is a float with two decimals in the form; it is held    *)
(* here in hundredths (2.3 is 230).  A probability is held as its          *)
(* numerator over ProbDen (k stands for k / ProbDen).  risk_percent is     *)
(* held in hundredths of a percent (3.12 is 312).                          *)
(***************************************************************************)
EXTENDS Integers, Sequences, FiniteSets, TLC

\* Denominator of the probabilities the classifier can return (a forest of
\* ProbDen trees votes k / ProbDen).
ProbDen == 32

\* Largest bias among the classifiers of the family.
MaxBias == 10

(***************************************************************************)
(* The form: number_input bounds and defaults, selectbox option lists.     *)
(***************************************************************************)
AgeMin == 1
AgeMax == 120
AgeDefault == 30
TrestbpsMin == 80
TrestbpsMax == 200
TrestbpsDefault == 120
CholMin == 100
CholMax == 600
CholDefault == 200
ThalachMin == 60
ThalachMax == 220
ThalachDefault == 150
OldpeakMin == 0
OldpeakMax == 1000
OldpeakDefault == 100

SexOptions == <<"Male", "Female">>
CpOptions == <<"Typical Angina", "Atypical Angina", "Non Anginal Pain", "Asymptomatic">>
FbsOptions == <<"False", "True">>
RestecgOptions == <<"Abnormality", "Normal", "Left ventricular hypertrophy">>
ExerciseOptions == <<"No pain", "Pain">>
SlopeOptions == <<"Downsloping", "Upsloping", "Flat">>
CaOptions == <<"Normal", "One vessel colored", "Two vessels colored",
               "Three vessels colored", "Four vessel colored">>
ThalOptions == <<"Reversible defect", "Normal", "Fixed Defect", "Unknown">>

NumericFields == {"age", "trestbps", "chol", "thalach", "oldpeak"}
CategoricalFields == {"sex", "cp", "fbs", "restecg", "exercise", "slope", "ca", "thal"}
Fields == NumericFields \cup CategoricalFields

Range(s) == {s[i] : i \in DOMAIN s}

\* The option list each selectbox is built with.
Options(f) ==
    CASE f = "sex" -> SexOptions
      [] f = "cp" -> CpOptions
      [] f = "fbs" -> FbsOptions
      [] f = "restecg" -> RestecgOptions
      [] f = "exercise" -> ExerciseOptions
      [] f = "slope" -> SlopeOptions
      [] f = "ca" -> CaOptions
      [] f = "thal" -> ThalOptions

\* The [min_value, max_value] each number_input is built with.
Bounds(f) ==
    CASE f = "age" -> <<AgeMin, AgeMax>>
      [] f = "trestbps" -> <<TrestbpsMin, TrestbpsMax>>
      [] f = "chol" -> <<CholMin, CholMax>>
      [] f = "thalach" -> <<ThalachMin, ThalachMax>>
      [] f = "oldpeak" -> <<OldpeakMin, OldpeakMax>>

\* What the widgets hold on a fresh session: value= of each number_input,
\* the first option of each selectbox.
Defaults ==
    [age |-> AgeDefault, sex |-> SexOptions[1], cp |-> CpOptions[1],
     fbs |-> FbsOptions[1], restecg |-> RestecgOptions[1],
     exercise |-> ExerciseOptions[1], trestbps |-> TrestbpsDefault,
     chol |-> CholDefault, thalach |-> ThalachDefault,
     oldpeak |-> OldpeakDefault, slope |-> SlopeOptions[1],
     ca |-> CaOptions[1], thal |-> ThalOptions[1]]

\* number_input without the max_value test.
NumberInputNoMax(f, current, entry) ==
    IF Bounds(f)[1] <= entry THEN entry ELSE current

\* number_input: an entry within [min_value, max_value] is committed, any
\* other entry is refused and the widget keeps the value it had.
NumberInput(f, current, entry) ==
    IF Bounds(f)[1] <= entry /\ entry <= Bounds(f)[2] THEN entry ELSE current

\* selectbox: the user can only pick one of the options.
Selectbox(f) == Range(Options(f))

(***************************************************************************)
(* Categorical encoding, lines 60-72.                                      *)
(***************************************************************************)
\* cp_map with two labels sharing the code 1.
cp_map_shared == ("Typical Angina" :> 3) @@ ("Atypical Angina" :> 1) @@
                 ("Non Anginal Pain" :> 1) @@ ("Asymptomatic" :> 0)

cp_map == ("Typical Angina" :> 3) @@ ("Atypical Angina" :> 1) @@
          ("Non Anginal Pain" :> 2) @@ ("Asymptomatic" :> 0)
restecg_map == ("Abnormality" :> 0) @@ ("Normal" :> 1) @@
               ("Left ventricular hypertrophy" :> 2)
exang_map == ("No pain" :> 0) @@ ("Pain" :> 1)
slope_map == ("Downsloping" :> 0) @@ ("Upsloping" :> 2) @@ ("Flat" :> 1)
ca_map == ("Normal" :> 0) @@ ("One vessel colored" :> 1) @@
          ("Two vessels colored" :> 2) @@ ("Three vessels colored" :> 3) @@
          ("Four vessel colored" :> 4)
thal_map == ("Reversible defect" :> 2) @@ ("Normal" :> 1) @@
            ("Fixed Defect" :> 0) @@ ("Unknown" :> 3)

sex_code(sex) == IF sex = "Male" THEN 1 ELSE 0
fbs_code(fbs) == IF fbs = "True" THEN 1 ELSE 0

\* The dictionary each subscripted field is looked up in.
MapOf(f) ==
    CASE f = "cp" -> cp_map
      [] f = "restecg" -> restecg_map
      [] f = "exercise" -> exang_map
      [] f = "slope" -> slope_map
      [] f = "ca" -> ca_map
      [] f = "thal" -> thal_map

SubscriptedFields == {"cp", "restecg", "exercise", "slope", "ca", "thal"}

\* d[key] raises KeyError when key is not a key of d.
RaisesKeyError(p) == \E f \in SubscriptedFields : p[f] \notin DOMAIN MapOf(f)

\* The code one categorical field contributes to the row (defined when the
\* lookup does not raise).
Code(f, label) ==
    CASE f = "sex" -> sex_code(label)
      [] f = "fbs" -> fbs_code(label)
      [] OTHER -> MapOf(f)[label]

\* Row with the trestbps and chol cells exchanged.
RowReordered(p) ==
    <<p.age, p.chol, p.trestbps, p.thalach, p.oldpeak,
      Code("sex", p.sex), Code("cp", p.cp), Code("fbs", p.fbs),
      Code("restecg", p.restecg), Code("exercise", p.exercise),
      Code("slope", p.slope), Code("ca", p.ca), Code("thal", p.thal)>>

\* The single row of input_data, in the order of the columns list.
Row(p) ==
    <<p.age, p.trestbps, p.chol, p.thalach, p.oldpeak,
      Code("sex", p.sex), Code("cp", p.cp), Code("fbs", p.fbs),
      Code("restecg", p.restecg), Code("exercise", p.exercise),
      Code("slope", p.slope), Code("ca", p.ca), Code("thal", p.thal)>>

Columns ==
    <<"age", "trestbps", "chol", "thalach", "oldpeak",
      "encoded_sex", "encoded_cp", "encoded_fbs",
      "encoded_restecg", "encoded_exang", "encoded_slope",
      "encoded_ca", "encoded_thal">>

(***************************************************************************)
(* The model artifact, lines 10, 83, 84.  app.py treats the unpickled      *)
(* object as a black box with two methods; nothing in the script ties the  *)
(* label predict returns to the probability predict_proba returns.  An     *)
(* artifact is one of a family of classifiers (a vote count that depends   *)
(* on the row, and the two class labels it answers with), or a file that   *)
(* does not unpickle, or an object that unpickles and fails in line 83 or  *)
(* line 84:                                                                *)
(*   "object"          no predict attribute (a dict, None);                *)
(*   "predict_raises"  predict is called and raises (a model fitted on     *)
(*                     another number of features);                        *)
(*   "predict_only"    predict answers, there is no predict_proba;         *)
(*   "proba_raises"    predict answers, predict_proba is called and        *)
(*                     raises;                                             *)
(*   "one_class"       predict answers, predict_proba answers with one     *)
(*                     column, so that [0][1] is out of range.             *)
(***************************************************************************)
NoArtifact == [kind |-> "none", bias |-> 0, classes |-> <<>>]
NotAClassifier == [kind |-> "object", bias |-> 0, classes |-> <<>>]
ClassPairs == {<<0, 1>>, <<1, 0>>, <<0, 2>>}
Models == [kind : {"classifier"}, bias : 0 .. MaxBias, classes : ClassPairs]

\* Objects whose predict is called and raises.
PredictRaises == [kind : {"predict_raises"}, bias : {0}, classes : {<<>>}]

\* Objects whose predict answers with a label and whose line 84 fails.
ProbaFaultKinds == {"predict_only", "proba_raises", "one_class"}
ProbaFaulty == [kind : ProbaFaultKinds, bias : {0}, classes : ClassPairs]

Artifacts == Models \cup PredictRaises \cup ProbaFaulty \cup {NotAClassifier, NoArtifact}

\* The exception line 83 ends with, "" when it binds prediction.
Line83Error(m) ==
    CASE m.kind = "object" -> "AttributeError"
      [] m.kind = "predict_raises" -> "ValueError"
      [] OTHER -> ""

\* The exception line 84 ends with, "" when it binds probability.
Line84Error(m) ==
    CASE m.kind = "predict_only" -> "AttributeError"
      [] m.kind = "proba_raises" -> "ValueError"
      [] m.kind = "one_class" -> "IndexError"
      [] OTHER -> ""

\* The calls a line has made on model_random when it ends: looking up a
\* missing attribute makes none, a method that raises was called.
Line83Calls(m, row) ==
    IF m.kind = "object" THEN <<>> ELSE <<[op |-> "predict", row |-> row]>>
Line84Calls(m, row) ==
    IF m.kind = "predict_only" THEN <<>> ELSE <<[op |-> "predict_proba", row |-> row]>>

RECURSIVE SumSeq(_)
SumSeq(s) == IF s = <<>> THEN 0 ELSE Head(s) + SumSeq(Tail(s))

Votes(m, row) == (m.bias + SumSeq(row)) % (ProbDen + 1)

\* model_random.predict(input_data)[0]
predict(m, row) ==
    IF 2 * Votes(m, row) > ProbDen THEN m.classes[2] ELSE m.classes[1]

\* model_random.predict_proba(input_data)[0][1], as a numerator over ProbDen
predict_proba(m, row) == Votes(m, row)

(***************************************************************************)
(* Rendering, lines 87-114.                                                *)
(***************************************************************************)
PositiveVerdict == "may have heart disease"
NegativeVerdict == "not likely to have heart disease"

\* The branch with st.balloons() moved out of the else.
VerdictBalloonsAlways(label) ==
    IF label = 1 THEN [text |-> PositiveVerdict, balloons |-> TRUE]
    ELSE [text |-> NegativeVerdict, balloons |-> TRUE]

\* The branch of lines 87-91: the verdict text and whether balloons fly.
Verdict(label) ==
    IF label = 1 THEN [text |-> PositiveVerdict, balloons |-> FALSE]
    ELSE [text |-> NegativeVerdict, balloons |-> TRUE]

BarColor(label) == IF label = 1 THEN "red" ELSE "green"

LowRiskColor == "#c8f7c5"
HighRiskColor == "#f9c0c0"

\* gauge steps: closed ranges over the axis [0, 1], endpoints as fractions
\* <<numerator, denominator>>, in the order the list gives them.
GaugeSteps ==
    <<[lo |-> <<0, 1>>, hi |-> <<1, 2>>, color |-> LowRiskColor],
      [lo |-> <<1, 2>>, hi |-> <<1, 1>>, color |-> HighRiskColor]>>

\* k / ProbDen lies in the closed range of a step.
InStep(step, k) ==
    /\ step.lo[1] * ProbDen <= k * step.lo[2]
    /\ k * step.hi[2] <= step.hi[1] * ProbDen

\* The bands a value lies in: the colours of the steps whose range holds it.
BandsAt(steps, k) ==
    {steps[i].color : i \in {j \in DOMAIN steps : InStep(steps[j], k)}}

\* go.Indicator(...) of lines 94-104.
Gauge(label, k) ==
    [value |-> k, axis |-> <<0, 1>>, bar |-> BarColor(label), steps |-> GaugeSteps]

CholFlagAbove == 200
NormalMax == 200

\* The bar flagged from the threshold on.
CholBarInclusive(chol) ==
    [value |-> chol,
     color |-> IF chol >= CholFlagAbove THEN "salmon" ELSE "seagreen",
     line |-> NormalMax]

\* ax.barh / ax.axvline of lines 110-111.
CholBar(chol) ==
    [value |-> chol,
     color |-> IF chol > CholFlagAbove THEN "salmon" ELSE "seagreen",
     line |-> NormalMax]

(***************************************************************************)
(* Report, lines 119-122.                                                  *)
(***************************************************************************)
\* n / d rounded to the nearest integer, an exact tie going to the even
\* neighbour (round() on a float that holds the tie exactly).
RoundHalfEven(n, d) ==
    LET q == n \div d
        r == n % d
    IN  IF 2 * r < d THEN q
        ELSE IF 2 * r > d THEN q + 1
        ELSE IF q % 2 = 0 THEN q ELSE q + 1

\* The percentage cut to two decimals instead of rounded.
RiskPercentTruncated(k) == (k * 10000) \div ProbDen

\* round(probability * 100, 2), in hundredths of a percent.
RiskPercent(k) == RoundHalfEven(k * 10000, ProbDen)

\* report_df: a copy of input_data with the two columns appended.
ReportDf(row, label, k) ==
    [columns |-> Columns \o <<"prediction", "risk_percent">>,
     row |-> row \o <<label, RiskPercent(k)>>]

FloatColumns == {"oldpeak", "risk_percent"}

Digit(d) == <<"0", "1", "2", "3", "4", "5", "6", "7", "8", "9">>[d + 1]

RECURSIVE FormatInt(_)
\* str of a non-negative integer, one character per element.
FormatInt(n) ==
    IF n < 10 THEN <<Digit(n)>> ELSE FormatInt(n \div 10) \o <<Digit(n % 10)>>

\* repr of a float holding h / 100: at least one fraction digit, no trailing
\* zero beyond it.
FormatFloat(h) ==
    FormatInt(h \div 100) \o <<".">> \o
    (IF h % 10 = 0 THEN <<Digit((h % 100) \div 10)>>
     ELSE <<Digit((h % 100) \div 10), Digit(h % 10)>>)

RECURSIVE JoinCells(_)
JoinCells(cells) ==
    IF Len(cells) = 1 THEN cells[1]
    ELSE cells[1] \o <<",">> \o JoinCells(Tail(cells))

\* to_csv(index=False): the header line, then the one data line, each ended
\* by a newline.  A column name is one element; a number is its characters.
to_csv(df) ==
    LET header == [i \in DOMAIN df.columns |-> <<df.columns[i]>>]
        data == [i \in DOMAIN df.row |->
                    IF df.columns[i] \in FloatColumns
                    THEN FormatFloat(df.row[i]) ELSE FormatInt(df.row[i])]
    IN  JoinCells(header) \o <<"\n">> \o JoinCells(data) \o <<"\n">>

(***************************************************************************)
(* What the user, or a program driving the script, can put in the fields.  *)
(***************************************************************************)
\* The patient of the encoding scenario.
Scenario ==
    [age |-> 63, sex |-> "Male", cp |-> "Typical Angina", trestbps |-> 145,
     chol |-> 233, fbs |-> "True", restecg |-> "Normal", thalach |-> 150,
     exercise |-> "No pain", oldpeak |-> 230, slope |-> "Downsloping",
     ca |-> "Normal", thal |-> "Fixed Defect"]

Bases == {Defaults, Scenario}

\* Numbers typed into a number_input; those of age include the two just
\* outside its bounds.
NumericEntries(f) ==
    CASE f = "age" -> {AgeMin - 1, AgeMin, AgeMax, AgeMax + 1}
      [] f = "trestbps" -> {TrestbpsMin, TrestbpsMax}
      [] f = "chol" -> {CholMin, CholFlagAbove, CholFlagAbove + 1, CholMax}
      [] f = "thalach" -> {ThalachMin, ThalachMax}
      [] f = "oldpeak" -> {OldpeakMin, OldpeakMax}

\* Labels no selectbox offers.
ForeignLabels == {"Other", "true"}

\* What can be entered in one field through its widget.
Entries(f) == IF f \in NumericFields THEN NumericEntries(f) ELSE Selectbox(f)

\* Entries made through the widgets: a base with one field changed.
FormEntries ==
    UNION {UNION {{[b EXCEPT ![f] = v] : v \in Entries(f)} : f \in Fields} : b \in Bases}

\* Entries that go around the widgets: one categorical field holds a label
\* outside its option list.
BypassEntries ==
    UNION {UNION {{[b EXCEPT ![f] = v] : v \in ForeignLabels} :
                    f \in CategoricalFields} : b \in Bases}

(***************************************************************************)
(* State.                                                                  *)
(***************************************************************************)
VARIABLES
    pc,             \* where the current script run is
    artifact,       \* model_random.pkl on disk, one of Artifacts
    model_random,   \* the object line 10 binds in this run
    heart_form,     \* the values the 13 widgets return
    entered,        \* what was last entered in the 13 fields
    via,            \* "form": entered through the widgets; "bypass": not
    submit_button,  \* what st.form_submit_button returns in this run
    page,           \* the elements this run has put on the page, in order
    error,          \* the error this run shows: "", "load", or the exception's name
    input_data,     \* the row of the DataFrame of line 68, <<>> before it
    calls,          \* the calls made on model_random in this run
    prediction,     \* <<label>> once line 83 has run
    probability,    \* <<k>> once line 84 has run
    verdict,        \* <<[text, balloons]>> once lines 87-91 have run
    gauge,          \* <<the indicator>> once line 105 has run
    chol_bar,       \* <<the bar>> once line 114 has run
    report_df,      \* <<the report frame>> once line 121 has run
    csv,            \* the text of line 122
    download        \* <<the download button>> once line 124 has run

inputs == <<artifact, heart_form, entered, via, submit_button>>
outputs == <<model_random, page, error, input_data, calls, prediction,
             probability, verdict, gauge, chol_bar, report_df, csv, download>>
vars == <<pc, inputs, outputs>>

\* A script run starts with nothing bound and an empty page.
Cleared ==
    /\ model_random' = NoArtifact
    /\ page' = <<>>
    /\ error' = ""
    /\ input_data' = <<>>
    /\ calls' = <<>>
    /\ prediction' = <<>>
    /\ probability' = <<>>
    /\ verdict' = <<>>
    /\ gauge' = <<>>
    /\ chol_bar' = <<>>
    /\ report_df' = <<>>
    /\ csv' = <<>>
    /\ download' = <<>>

Init ==
    /\ pc = "load"
    /\ artifact \in Artifacts
    /\ heart_form = Defaults
    /\ entered = Defaults
    /\ via = "form"
    /\ submit_button = FALSE
    /\ model_random = NoArtifact
    /\ page = <<>>
    /\ error = ""
    /\ input_data = <<>>
    /\ calls = <<>>
    /\ prediction = <<>>
    /\ probability = <<>>
    /\ verdict = <<>>
    /\ gauge = <<>>
    /\ chol_bar = <<>>
    /\ report_df = <<>>
    /\ csv = <<>>
    /\ download = <<>>

(***************************************************************************)
(* The script, top to bottom.                                              *)
(***************************************************************************)
\* Lines 9-10: pkl.load succeeds.
LoadModel ==
    /\ pc = "load"
    /\ artifact # NoArtifact
    /\ model_random' = artifact
    /\ pc' = "form"
    /\ UNCHANGED <<inputs, page, error, input_data, calls, prediction,
                   probability, verdict, gauge, chol_bar, report_df, csv, download>>

\* The except branch without st.stop(): the script goes on.
LoadFailedNoStop ==
    /\ pc = "load"
    /\ artifact = NoArtifact
    /\ error' = "load"
    /\ page' = page \o <<"error">>
    /\ pc' = "form"
    /\ UNCHANGED <<inputs, model_random, input_data, calls, prediction,
                   probability, verdict, gauge, chol_bar, report_df, csv, download>>

\* Lines 11-13: pkl.load raises; st.error, then st.stop ends the run.
LoadFailed ==
    /\ pc = "load"
    /\ artifact = NoArtifact
    /\ error' = "load"
    /\ page' = page \o <<"error">>
    /\ pc' = "stopped"
    /\ UNCHANGED <<inputs, model_random, input_data, calls, prediction,
                   probability, verdict, gauge, chol_bar, report_df, csv, download>>

\* Lines 16-58: page config, title, the form; then the test of submit_button.
RenderForm ==
    /\ pc = "form"
    /\ page' = page \o <<"title", "heart_form">>
    /\ pc' = IF submit_button THEN "encode" ELSE "idle"
    /\ UNCHANGED <<inputs, model_random, error, input_data, calls, prediction,
                   probability, verdict, gauge, chol_bar, report_df, csv, download>>

\* Lines 60-78: the codes and the one-row DataFrame.
Encode ==
    /\ pc = "encode"
    /\ ~RaisesKeyError(heart_form)
    /\ input_data' = Row(heart_form)
    /\ pc' = "analyzing"
    /\ UNCHANGED <<inputs, model_random, page, error, calls, prediction,
                   probability, verdict, gauge, chol_bar, report_df, csv, download>>

\* Lines 68-72 when a subscript raises: the run ends with the exception shown.
EncodeFailed ==
    /\ pc = "encode"
    /\ RaisesKeyError(heart_form)
    /\ error' = "KeyError"
    /\ page' = page \o <<"exception">>
    /\ pc' = "error"
    /\ UNCHANGED <<inputs, model_random, input_data, calls, prediction,
                   probability, verdict, gauge, chol_bar, report_df, csv, download>>

\* Lines 81-82: the spinner is shown and time.sleep(2) passes.
AnalyzeWait ==
    /\ pc = "analyzing"
    /\ pc' = "predict"
    /\ UNCHANGED <<inputs, outputs>>

\* Lines 83-84 when both bind their name.
Predict ==
    /\ pc = "predict"
    /\ Line83Error(model_random) = ""
    /\ Line84Error(model_random) = ""
    /\ prediction' = <<predict(model_random, input_data)>>
    /\ probability' = <<predict_proba(model_random, input_data)>>
    /\ calls' = calls \o Line83Calls(model_random, input_data)
                      \o Line84Calls(model_random, input_data)
    /\ pc' = "verdict"
    /\ UNCHANGED <<inputs, model_random, page, error, input_data, verdict,
                   gauge, chol_bar, report_df, csv, download>>

\* Line 83 raises: prediction is not bound, line 84 is not reached, and the
\* run ends with the exception shown.
PredictFailed ==
    /\ pc = "predict"
    /\ Line83Error(model_random) # ""
    /\ calls' = calls \o Line83Calls(model_random, input_data)
    /\ error' = Line83Error(model_random)
    /\ page' = page \o <<"exception">>
    /\ pc' = "error"
    /\ UNCHANGED <<inputs, model_random, input_data, prediction,
                   probability, verdict, gauge, chol_bar, report_df, csv, download>>

\* Line 83 binds prediction and line 84 raises: probability is not bound,
\* and the run ends with the exception shown.
PredictProbaFailed ==
    /\ pc = "predict"
    /\ Line83Error(model_random) = ""
    /\ Line84Error(model_random) # ""
    /\ prediction' = <<predict(model_random, input_data)>>
    /\ calls' = calls \o Line83Calls(model_random, input_data)
                      \o Line84Calls(model_random, input_data)
    /\ error' = Line84Error(model_random)
    /\ page' = page \o <<"exception">>
    /\ pc' = "error"
    /\ UNCHANGED <<inputs, model_random, input_data,
                   probability, verdict, gauge, chol_bar, report_df, csv, download>>

\* Lines 87-91.
ShowVerdict ==
    /\ pc = "verdict"
    /\ verdict' = <<Verdict(prediction[1])>>
    /\ page' = page \o <<"verdict">> \o
                   (IF Verdict(prediction[1]).balloons THEN <<"balloons">> ELSE <<>>)
    /\ pc' = "gauge"
    /\ UNCHANGED <<inputs, model_random, error, input_data, calls, prediction,
                   probability, gauge, chol_bar, report_df, csv, download>>

\* Lines 94-105.
ShowGauge ==
    /\ pc = "gauge"
    /\ gauge' = <<Gauge(prediction[1], probability[1])>>
    /\ page' = page \o <<"gauge">>
    /\ pc' = "chol_bar"
    /\ UNCHANGED <<inputs, model_random, error, input_data, calls, prediction,
                   probability, verdict, chol_bar, report_df, csv, download>>

\* Lines 108-114.
ShowCholBar ==
    /\ pc = "chol_bar"
    /\ chol_bar' = <<CholBar(heart_form.chol)>>
    /\ page' = page \o <<"chol_bar">>
    /\ pc' = "preparing"
    /\ UNCHANGED <<inputs, model_random, error, input_data, calls, prediction,
                   probability, verdict, gauge, report_df, csv, download>>

\* Lines 117-118: the spinner is shown and time.sleep(2) passes.
PrepareWait ==
    /\ pc = "preparing"
    /\ pc' = "report"
    /\ UNCHANGED <<inputs, outputs>>

\* Lines 119-122.
BuildReport ==
    /\ pc = "report"
    /\ report_df' = <<ReportDf(input_data, prediction[1], probability[1])>>
    /\ csv' = to_csv(ReportDf(input_data, prediction[1], probability[1]))
    /\ pc' = "download"
    /\ UNCHANGED <<inputs, model_random, page, error, input_data, calls,
                   prediction, probability, verdict, gauge, chol_bar, download>>

\* Lines 124-125.
OfferDownload ==
    /\ pc = "download"
    /\ download' = <<[data |-> csv, file_name |-> "heart_risk_report.csv",
                      mime |-> "text/csv"]>>
    /\ page' = page \o <<"download", "report-ready">>
    /\ pc' = "rendered"
    /\ UNCHANGED <<inputs, model_random, error, input_data, calls, prediction,
                   probability, verdict, gauge, chol_bar, report_df, csv>>

Script ==
    \/ LoadModel
    \/ LoadFailed
    \/ RenderForm
    \/ Encode
    \/ EncodeFailed
    \/ AnalyzeWait
    \/ Predict
    \/ PredictFailed
    \/ PredictProbaFailed
    \/ ShowVerdict
    \/ ShowGauge
    \/ ShowCholBar
    \/ PrepareWait
    \/ BuildReport
    \/ OfferDownload

(***************************************************************************)
(* Interactions: each one stops the run, finished or not, and starts a new  *)
(* one.                                                                    *)
(***************************************************************************)
\* The form is on the page: from line 56 of a run on, also while the run is
\* still going.
FormShown == "heart_form" \in Range(page)

\* The values the widgets of lines 38-54 return for an entry.
Widgets(current, e) ==
    [f \in Fields |->
        IF f \in NumericFields THEN NumberInput(f, current[f], e[f]) ELSE e[f]]

\* The user fills the form and presses Predict.
FormSubmit(e) ==
    /\ FormShown
    /\ \A f \in CategoricalFields : e[f] \in Selectbox(f)
    /\ entered' = e
    /\ heart_form' = Widgets(heart_form, e)
    /\ via' = "form"
    /\ submit_button' = TRUE
    /\ pc' = "load"
    /\ Cleared
    /\ UNCHANGED artifact

\* A program sets the fields without the widgets and triggers the submit.
BypassSubmit(e) ==
    /\ FormShown
    /\ entered' = e
    /\ heart_form' = e
    /\ via' = "bypass"
    /\ submit_button' = TRUE
    /\ pc' = "load"
    /\ Cleared
    /\ UNCHANGED artifact

\* The user presses the download button of line 124: a run without a
\* submission, the widgets keeping their values.
DownloadClick ==
    /\ download # <<>>
    /\ submit_button' = FALSE
    /\ pc' = "load"
    /\ Cleared
    /\ UNCHANGED <<artifact, heart_form, entered, via>>

\* The browser reloads the page, at any time: a new session with the
\* widgets' defaults.
Reload ==
    /\ entered' = Defaults
    /\ heart_form' = Defaults
    /\ via' = "form"
    /\ submit_button' = FALSE
    /\ pc' = "load"
    /\ Cleared
    /\ UNCHANGED artifact

Next ==
    \/ Script
    \/ \E e \in FormEntries : FormSubmit(e)
    \/ \E e \in BypassEntries : BypassSubmit(e)
    \/ DownloadClick
    \/ Reload

Spec == Init /\ [][Next]_vars

\* Streamlit keeps running the script of the current run; it does not keep
\* the user from interacting.
FairSpec == Spec /\ WF_vars(Script)

(***************************************************************************)
(* Reading facts off a state.                                              *)
(***************************************************************************)
Encoded == input_data # <<>>
CallRows == {calls[i].row : i \in DOMAIN calls}
OnPage(el) == el \in Range(page)
CountOnPage(el) == Cardinality({i \in DOMAIN page : page[i] = el})
RunEnded == pc \in {"stopped", "idle", "rendered", "error"}

\* Reading the report back: lines, cells, numbers.
RECURSIVE SplitAcc(_, _, _, _)
SplitAcc(s, sep, cur, done) ==
    IF s = <<>> THEN done \o <<cur>>
    ELSE IF Head(s) = sep THEN SplitAcc(Tail(s), sep, <<>>, done \o <<cur>>)
    ELSE SplitAcc(Tail(s), sep, cur \o <<Head(s)>>, done)

Split(s, sep) == SplitAcc(s, sep, <<>>, <<>>)

\* The newline-terminated lines of a text.
Lines(text) ==
    LET ps == Split(text, "\n")
    IN  IF ps[Len(ps)] = <<>> THEN SubSeq(ps, 1, Len(ps) - 1) ELSE ps

DigitVal(c) == CHOOSE d \in 0 .. 9 : Digit(d) = c

RECURSIVE ParseInt(_)
ParseInt(cs) ==
    IF cs = <<>> THEN 0
    ELSE 10 * ParseInt(SubSeq(cs, 1, Len(cs) - 1)) + DigitVal(cs[Len(cs)])

\* An integer cell reads as the integer; a cell with a point reads as the
\* number of hundredths it stands for.
ParseCell(cs) ==
    LET ps == Split(cs, ".")
    IN  IF Len(ps) = 1 THEN ParseInt(cs)
        ELSE 100 * ParseInt(ps[1])
             + (IF Len(ps[2]) = 1 THEN 10 * ParseInt(ps[2]) ELSE ParseInt(ps[2]))

HasPoint(cs) == Len(Split(cs, ".")) = 2

\* h hundredths of a percent is the value nearest to k / ProbDen * 100, an
\* exact tie read as the even neighbour.
IsRounded(h, k) ==
    LET twice == 2 * (h * ProbDen - k * 10000)
    IN  /\ -ProbDen <= twice /\ twice <= ProbDen
        /\ (twice = ProbDen \/ twice = -ProbDen) => h % 2 = 0

(***************************************************************************)
(* Claims.                                                                 *)
(***************************************************************************)

\* C1: for a well-formed submission the row passed to the model is
\* [age, trestbps, chol, thalach, oldpeak, sex, cp, fbs, restecg, exang,
\* slope, ca, thal] in that order, each code from the field's own table;
\* the scenario patient encodes to [63,145,233,150,2.3,1,3,1,1,0,0,0,0].
C1_RowOrder ==
    (via = "form" /\ Encoded) =>
        /\ input_data =
             <<heart_form.age, heart_form.trestbps, heart_form.chol,
               heart_form.thalach, heart_form.oldpeak,
               IF heart_form.sex = "Male" THEN 1 ELSE 0,
               cp_map[heart_form.cp],
               IF heart_form.fbs = "True" THEN 1 ELSE 0,
               restecg_map[heart_form.restecg],
               exang_map[heart_form.exercise],
               slope_map[heart_form.slope],
               ca_map[heart_form.ca],
               thal_map[heart_form.thal]>>
        /\ CallRows \subseteq {input_data}
        /\ heart_form = Scenario =>
             input_data = <<63, 145, 233, 150, 230, 1, 3, 1, 1, 0, 0, 0, 0>>

C1_Witness ==
    /\ via = "form"
    /\ heart_form = Scenario
    /\ Len(calls) = 2
    /\ calls[1].row = <<63, 145, 233, 150, 230, 1, 3, 1, 1, 0, 0, 0, 0>>

\* C2: when a categorical field holds a value outside its label set, the
\* encoding fails with a visible error and no row, prediction, verdict or
\* report is produced; no field falls back to a default code.
C2_ForeignLabelFails ==
    (\E f \in CategoricalFields : heart_form[f] \notin Selectbox(f)) =>
        /\ ~Encoded
        /\ calls = <<>>
        /\ verdict = <<>>
        /\ download = <<>>
        /\ (RunEnded /\ submit_button /\ artifact # NoArtifact) => error = "KeyError"

\* C3: after a failed load the error is shown and the run is halted: the
\* form is not on the page, no submission can be made, no step of the script
\* can run, and the model was never called.
C3_LoadFailureHalts ==
    /\ artifact = NoArtifact => (~OnPage("heart_form") /\ calls = <<>> /\ ~Encoded)
    /\ (artifact = NoArtifact /\ pc # "load") =>
          /\ pc = "stopped"
          /\ error = "load"
          /\ page = <<"error">>
          /\ ~ENABLED Script
          /\ ~ENABLED (\E e \in FormEntries : FormSubmit(e))
          /\ ~ENABLED (\E e \in BypassEntries : BypassSubmit(e))
    /\ error = "load" => artifact = NoArtifact

C3_Witness == pc = "stopped" /\ error = "load" /\ page = <<"error">>

\* C4: every label a selectbox offers has exactly one integer code, no two
\* labels of a field share a code, and so a submission made through the
\* form never fails in the encoder.
C4_EncoderTotalInjective ==
    /\ \A f \in CategoricalFields :
          /\ f \in SubscriptedFields => Selectbox(f) \subseteq DOMAIN MapOf(f)
          /\ \A a, b \in Selectbox(f) :
                (f \in SubscriptedFields => a \in DOMAIN MapOf(f) /\ b \in DOMAIN MapOf(f))
                    => /\ Code(f, a) \in Int
                       /\ Code(f, a) = Code(f, b) => a = b
    /\ via = "form" => error # "KeyError"
    /\ (via = "form" /\ pc \in {"analyzing", "predict", "verdict", "gauge",
                                "chol_bar", "preparing", "report", "download",
                                "rendered"}) => Encoded

C4_Witness ==
    /\ via = "form"
    /\ pc = "rendered"
    /\ heart_form.ca = "Four vessel colored"
    /\ input_data[12] = 4

\* C5: the report is a header line and one data line; its columns are the
\* 13 encoded values in model order, then prediction, then risk_percent; the
\* 13 values are the row the model was given, prediction is the model's
\* label, and risk_percent is round(probability * 100, 2).
C5_Report ==
    csv # <<>> =>
        LET lines == Lines(csv)
            head == Split(lines[1], ",")
            cells == Split(lines[2], ",")
        IN  /\ Len(lines) = 2
            /\ head = [i \in 1 .. 15 |-> <<(Columns \o <<"prediction", "risk_percent">>)[i]>>]
            /\ Len(cells) = 15
            /\ \A i \in 1 .. 13 : ParseCell(cells[i]) = calls[1].row[i]
            /\ input_data = calls[1].row
            /\ ParseCell(cells[14]) = prediction[1]
            /\ ~HasPoint(cells[14])
            /\ HasPoint(cells[15])
            /\ IsRounded(ParseCell(cells[15]), probability[1])
            /\ download # <<>> => download[1].data = csv

\* A report whose risk is an exact tie between two hundredths.
C5_Witness ==
    /\ download # <<>>
    /\ download[1].data = csv
    /\ 2 * ((probability[1] * 10000) % ProbDen) = ProbDen
    /\ heart_form.oldpeak = 230

\* C6: the gauge shows every probability over exactly one band: the low
\* risk band below 0.5, the high risk band from 0.5 on, 0.50 included.
C6_GaugeBand ==
    gauge # <<>> =>
        LET g == gauge[1]
        IN  /\ g.value = probability[1]
            /\ Cardinality({i \in DOMAIN g.steps : InStep(g.steps[i], g.value)}) = 1
            /\ 2 * g.value < ProbDen => BandsAt(g.steps, g.value) = {LowRiskColor}
            /\ 2 * g.value >= ProbDen => BandsAt(g.steps, g.value) = {HighRiskColor}

\* C7: verdict, balloons and bar colour follow the label alone: label 1
\* gives the positive verdict, a red bar and no balloons, any other label
\* the negative verdict, a green bar and balloons; one verdict per
\* submission; a label 0 with probability >= 0.5 shows a green bar over the
\* high risk band.
C7_LabelDecides ==
    /\ verdict # <<>> =>
          /\ prediction[1] = 1 =>
                (verdict[1].text = PositiveVerdict /\ ~OnPage("balloons"))
          /\ prediction[1] # 1 =>
                (verdict[1].text = NegativeVerdict /\ OnPage("balloons"))
          /\ CountOnPage("verdict") = 1
    /\ verdict = <<>> => (~OnPage("verdict") /\ ~OnPage("balloons"))
    /\ gauge # <<>> =>
          gauge[1].bar = (IF prediction[1] = 1 THEN "red" ELSE "green")

C7_Witness ==
    /\ pc = "rendered"
    /\ prediction[1] = 0
    /\ 2 * probability[1] >= ProbDen
    /\ gauge[1].bar = "green"
    /\ HighRiskColor \in BandsAt(gauge[1].steps, gauge[1].value)
    /\ OnPage("balloons")

\* C8: the cholesterol bar is flagged exactly when chol > 200: within
\* 100..600, chol <= 200 is not flagged and chol >= 201 is.
C8_CholFlag ==
    chol_bar # <<>> =>
        /\ chol_bar[1].value = heart_form.chol
        /\ heart_form.chol \in 100 .. 600
        /\ heart_form.chol <= 200 => chol_bar[1].color = "seagreen"
        /\ heart_form.chol >= 201 => chol_bar[1].color = "salmon"
        /\ chol_bar[1].line = 200

C8_Witness ==
    /\ chol_bar # <<>>
    /\ heart_form.chol = 200
    /\ chol_bar[1].color = "seagreen"

\* C9: an age is accepted exactly when 1 <= age <= 120: 1 and 120 reach the
\* encoder, 0 and 121 are refused and reach neither encoder nor model.
C9_AgeBoundary ==
    /\ heart_form.age \in 1 .. 120
    /\ (via = "form" /\ entered.age \in 1 .. 120) => heart_form.age = entered.age
    /\ entered.age \notin 1 .. 120 => heart_form.age # entered.age
    /\ Encoded => input_data[1] = heart_form.age
    /\ \A r \in CallRows : r[1] \in 1 .. 120 /\ r[1] = heart_form.age
    /\ (via = "form" /\ entered.age \in {1, 120} /\ pc = "rendered") =>
          (input_data[1] = entered.age /\ calls[1].row[1] = entered.age)

C9_Witness ==
    /\ entered.age = 121
    /\ pc = "rendered"
    /\ input_data[1] # 121

\* The positions of a run between the test of line 58 and the end of
\* line 125; a run is there only after pkl.load succeeded.
InCycle ==
    {"encode", "analyzing", "predict", "verdict", "gauge", "chol_bar",
     "preparing", "report", "download"}

\* Where the script goes next from a position of the cycle.
NextInCycle(at) ==
    CASE at = "encode" -> "analyzing"
      [] at = "analyzing" -> "predict"
      [] at = "predict" -> "verdict"
      [] at = "verdict" -> "gauge"
      [] at = "gauge" -> "chol_bar"
      [] at = "chol_bar" -> "preparing"
      [] at = "preparing" -> "report"
      [] at = "report" -> "download"
      [] at = "download" -> "rendered"

\* C10: with a loaded model every submission is an independent terminal
\* cycle: nothing is encoded, predicted or rendered without a submit; every
\* step of a cycle is the next one in the order encode, predict and
\* predict_proba (once each, on the same row), verdict, gauge, cholesterol
\* bar, report, download, so that a cycle once begun is left only at
\* rendered, the download coming after the prediction; and no step changes
\* the loaded model or the data of the submission.
C10_Cycle ==
    [][ /\ pc' \in InCycle \cup {"rendered"} => (submit_button /\ pc \in {"form"} \cup InCycle)
        /\ pc \in InCycle =>
              /\ pc' = NextInCycle(pc)
              /\ model_random' = model_random /\ artifact' = artifact
              /\ heart_form' = heart_form
              /\ Encoded => input_data' = input_data
              /\ calls # <<>> => calls' = calls
        /\ (pc = "predict") =>
              calls' = <<[op |-> "predict", row |-> input_data],
                         [op |-> "predict_proba", row |-> input_data]>>
        /\ download' # <<>> => (Len(calls') = 2 /\ prediction' # <<>>)
      ]_vars

====
